---------------------------- MODULE Spec2Model ----------------------------
(***************************************************************************)
(* Model of the fuzzy prompt deduplication engine of ccql                  *)
(* (src/src/dedup/mod.rs): FuzzyDeduper::normalize, ::is_similar and       *)
(* ::cluster.                                                              *)
(*                                                                         *)
(* A string is a sequence of characters.  A character is a one-element     *)
(* TLA+ string; a character whose UTF-8 encoding takes two bytes is        *)
(* written by its code point ("U+00E9" is e-acute), and so is the          *)
(* one-byte backquote ("U+0060").  Rust's str::len() counts bytes          *)
(* (ByteLen), strsim counts chars (CharCount).                             *)
(*                                                                         *)
(* A threshold is a number of hundredths: 80 stands for the f64 0.8.       *)
(***************************************************************************)
EXTENDS Integers, Sequences, FiniteSets, TLC

VARIABLES
    prompts,    \* cluster's argument: the raw prompts
    threshold,  \* self.threshold, in hundredths
    pc,         \* position in cluster(): "count", "rank", "assign", "sort", "done";
                \* or in a direct call of is_similar: "call", "returned"
    i,          \* index of the next prompt of the counting loop (line 24)
    counts,     \* the HashMap<String, usize> of line 23, a function text -> count
    items,      \* the Vec<(String, usize)> of line 32
    k,          \* index of the next item of the assignment loop (line 38)
    clusters,   \* the Vec<PromptCluster> of line 36
    creation,   \* history: the canonicals in the order their clusters were created
    a, b,       \* the arguments of a direct call of is_similar
    similar     \* its result ("none" before it returns)

vars == <<prompts, threshold, pc, i, counts, items, k, clusters, creation, a, b, similar>>

----------------------------------------------------------------------------
(* Bounds and inputs *)

MaxPrompts == 4

MaxNoisePrompts == 2

\* The thresholds the model draws from, in hundredths.  For these values the
\* f64 test 1.0 - d/m >= threshold agrees with the exact one for all m < 40.
Thresholds == {0, 80}

\* Raw prompts for the general specification: a text, a near-duplicate of it
\* that needs trimming and lower-casing, a prompt more than twice as long, a
\* prompt of 3 characters and 5 bytes, and a prompt that is too short once
\* trimmed.
Corpus ==
    { <<"a", "b", "c", "d">>,
      <<"A", "B", "C", "D", "E", " ">>,
      <<"w", "x", "y", "z", "w", "x", "y", "z", "w">>,
      <<"U+00C9", "t", "U+00E9">>,
      <<"a", "b", "c", " ">> }

\* Raw prompts for the noise specification: one per noise marker, near misses
\* that carry a marker's letters without matching it, short and empty prompts.
NoiseCorpus ==
    { <<"i", "m", "p", "o", "r", "t", " ", "x">>,
      <<" ", "E", "x", "p", "o", "r", "t", " ", "Y">>,
      <<"a", " ", "c", "o", "n", "s", "t", " ", "b">>,
      <<"f", "u", "n", "c", "t", "i", "o", "n", " ", "f">>,
      <<"i", "n", "t", "e", "r", "f", "a", "c", "e", " ", "I">>,
      <<"a", "t", " ", "a", ".", "j", "s", ":", "1">>,
      <<"a", "t", " ", "a", ".", "t", "s", ":", "2">>,
      <<"a", "t", " ", "a", ".", "t", "s", "x", ":", "3">>,
      <<"c", "h", "u", "n", "k", "-", "A", "B">>,
      <<"r", "e", "q", "u", "e", "s", "t", "A", "n", "i", "m", "a", "t", "i", "o", "n", "F", "r", "a", "m", "e">>,
      <<"i", "n", "s", "t", "a", "l", "l", "H", "o", "o", "k">>,
      <<"/", "/", " ", "n", "o", "t", "e">>,
      <<"/", "*", " ", "n", "o", "t", "e">>,
      <<"U+0060", "U+0060", "U+0060", "r", "u", "s", "t">>,
      <<"[", "1", ",", "2", "]">>,
      <<"\t", "{", "x", "}">>,
      <<"<", "d", "i", "v", ">">>,
      <<"i", "m", "p", "o", "r", "t", "a", "n", "t">>,
      <<"a", " ", "/", "/", " ", "b">>,
      <<"f", "i", "x", " ", "[", "i", "t", "]">>,
      <<"a", "b">>,
      <<>>,
      <<"f", "i", "x", " ", "i", "t">> }

\* The strings a direct call of is_similar is given.
SimPool ==
    { <<"c", "o", "n", "t", "i", "n", "u", "e">>,
      <<"c", "o", "t", "n", "i", "n", "u", "e">>,
      <<"c", "o", "n", "t", "n", "u", "e">>,
      <<"f", "i", "x", " ", "i", "t">>,
      <<"f", "i", "x", " ", "i", "s", "s", "u", "e", "s">>,
      <<"c", "o", "m", "m", "i", "t", " ", "t", "h", "i", "s">>,
      <<"c", "o", "m", "m", "i", "t", " ", "t", "h", "a", "t">>,
      <<"r", "u", "n", " ", "t", "e", "s", "t", "s">>,
      <<"U+00E9", "U+00E9">>,
      <<"U+00E9", "U+00E9", "a", "b", "c">>,
      <<"a", "b", "c", "d">>,
      <<"a", "b", "c", "d", "e", "f", "g", "h">>,
      <<"a", "b", "c", "d", "e", "f", "g", "h", "i">>,
      <<>> }

\* A batch made only of a too-short, a noise and an empty prompt
AllDiscarded ==
    << <<"a", "b">>,
       <<"i", "m", "p", "o", "r", "t", " ", "x">>,
       <<>> >>

\* tests::test_clustering's input
Scenario ==
    << <<"c", "o", "n", "t", "i", "n", "u", "e">>,
      <<"c", "o", "n", "t", "i", "n", "u", "e">>,
      <<"c", "o", "t", "n", "i", "n", "u", "e">>,
      <<"c", "o", "n", "t", "n", "u", "e">>,
      <<"f", "i", "x", " ", "i", "t">>,
      <<"f", "i", "x", " ", "t", "h", "i", "s">> >>

----------------------------------------------------------------------------
(* Strings *)

Min(x, y) == IF x <= y THEN x ELSE y

Max(x, y) == IF x >= y THEN x ELSE y

\* Characters encoded in two bytes of UTF-8
WideChars == {"U+00E9", "U+00C9"}

Utf8Len(c) == IF c \in WideChars THEN 2 ELSE 1

\* str::len(): the length in bytes
RECURSIVE ByteLen(_)
ByteLen(s) == IF s = <<>> THEN 0 ELSE Utf8Len(Head(s)) + ByteLen(Tail(s))

\* str::chars().count()
CharCount(s) == Len(s)

WhiteSpace == {" ", "\t", "\n"}

RECURSIVE trim_start(_)
trim_start(s) ==
    IF s # <<>> /\ Head(s) \in WhiteSpace THEN trim_start(Tail(s)) ELSE s

RECURSIVE trim_end(_)
trim_end(s) ==
    IF s # <<>> /\ s[Len(s)] \in WhiteSpace
    THEN trim_end(SubSeq(s, 1, Len(s) - 1))
    ELSE s

\* str::trim()
trim(s) == trim_end(trim_start(s))

UpperAscii ==
    <<"A", "B", "C", "D", "E", "F", "G", "H", "I", "J", "K", "L", "M", "N", "O", "P", "Q", "R", "S", "T", "U", "V", "W", "X", "Y", "Z">>

LowerAscii ==
    <<"a", "b", "c", "d", "e", "f", "g", "h", "i", "j", "k", "l", "m", "n", "o", "p", "q", "r", "s", "t", "u", "v", "w", "x", "y", "z">>

LowerChar(c) ==
    IF \E n \in 1..Len(UpperAscii) : UpperAscii[n] = c
    THEN LowerAscii[CHOOSE n \in 1..Len(UpperAscii) : UpperAscii[n] = c]
    ELSE IF c = "U+00C9" THEN "U+00E9" ELSE c

\* str::to_lowercase()
to_lowercase(s) == [n \in 1..Len(s) |-> LowerChar(s[n])]

\* str::contains(pat)
contains(s, pat) ==
    \E n \in 0..(Len(s) - Len(pat)) : SubSeq(s, n + 1, n + Len(pat)) = pat

\* str::starts_with(pat)
starts_with(s, pat) == Len(s) >= Len(pat) /\ SubSeq(s, 1, Len(pat)) = pat

----------------------------------------------------------------------------
(* FuzzyDeduper::normalize *)

SubstringMarkers ==
    { <<"i", "m", "p", "o", "r", "t", " ">>,
      <<"e", "x", "p", "o", "r", "t", " ">>,
      <<"c", "o", "n", "s", "t", " ">>,
      <<"f", "u", "n", "c", "t", "i", "o", "n", " ">>,
      <<"i", "n", "t", "e", "r", "f", "a", "c", "e", " ">>,
      <<".", "j", "s", ":">>,
      <<".", "t", "s", ":">>,
      <<".", "t", "s", "x", ":">>,
      <<"c", "h", "u", "n", "k", "-">>,
      <<"r", "e", "q", "u", "e", "s", "t", "a", "n", "i", "m", "a", "t", "i", "o", "n", "f", "r", "a", "m", "e">>,
      <<"i", "n", "s", "t", "a", "l", "l", "h", "o", "o", "k">> }

PrefixMarkers ==
    { <<"/", "/">>,
      <<"/", "*">>,
      <<"U+0060", "U+0060", "U+0060">>,
      <<"[">>,
      <<"{">>,
      <<"<">> }

\* IsNoise with the prefix tests of lines 74-76 and 83-85 left out
IsNoiseSubstringsOnly(s) ==
    \E m \in SubstringMarkers : contains(s, m)

IsNoise(s) ==
    \/ \E m \in SubstringMarkers : contains(s, m)
    \/ \E m \in PrefixMarkers : starts_with(s, m)

normalize(s) ==
    LET t == to_lowercase(trim(s))
    IN  IF IsNoise(t) THEN <<>> ELSE t

----------------------------------------------------------------------------
(* FuzzyDeduper::is_similar *)

\* strsim::levenshtein: one row of the distance table from the row before it.
\* row[j + 1] is the distance between the characters of x read so far and the
\* first j characters of y.
RECURSIVE LevRow(_, _, _, _)
LevRow(prev, c, y, cur) ==
    LET j == Len(cur)
    IN  IF j > Len(y) THEN cur
        ELSE LevRow(prev, c, y,
                 Append(cur, Min(Min(prev[j + 1] + 1, cur[j] + 1),
                                 prev[j] + (IF c = y[j] THEN 0 ELSE 1))))

RECURSIVE LevRows(_, _, _)
LevRows(prev, x, y) ==
    IF x = <<>> THEN prev
    ELSE LevRows(LevRow(prev, Head(x), y, <<prev[1] + 1>>), Tail(x), y)

levenshtein(x, y) == LevRows([j \in 1..(Len(y) + 1) |-> j - 1], x, y)[Len(y) + 1]

\* strsim::normalized_levenshtein(x, y) >= t, for t in hundredths:
\* 1.0 - distance / max(chars) >= t / 100, and 1.0 for two empty strings.
normalized_levenshtein_ge(x, y, t) ==
    LET m == Max(CharCount(x), CharCount(y))
    IN  IF m = 0 THEN 100 >= t
        ELSE 100 * (m - levenshtein(x, y)) >= t * m

\* line 100-101: len_ratio < 0.5, on byte lengths
len_ratio_below_half(x, y) ==
    2 * Min(ByteLen(x), ByteLen(y)) < Max(ByteLen(x), ByteLen(y))

is_similar(x, y, t) ==
    IF x = y THEN TRUE
    ELSE IF len_ratio_below_half(x, y) THEN FALSE
    ELSE normalized_levenshtein_ge(x, y, t)

----------------------------------------------------------------------------
(* FuzzyDeduper::cluster *)

LengthFloor == 3

DefaultThreshold == 80

\* line 26: the prompt is counted
Keep(normalized) == normalized # <<>> /\ ByteLen(normalized) > LengthFloor

\* Count that inserts 1 for a new text and leaves a known text's count alone
CountOnce(cs, normalized) ==
    IF normalized \in DOMAIN cs
    THEN cs
    ELSE [t \in DOMAIN cs \cup {normalized} |->
              IF t = normalized THEN 1 ELSE cs[t]]

\* line 27: *counts.entry(normalized).or_insert(0) += 1
Count(cs, normalized) ==
    IF normalized \in DOMAIN cs
    THEN [cs EXCEPT ![normalized] = @ + 1]
    ELSE [t \in DOMAIN cs \cup {normalized} |->
              IF t = normalized THEN 1 ELSE cs[t]]

\* line 32: counts.into_iter().collect().  A HashMap iterates in an order
\* that depends on its per-instance random hasher state: any order of its
\* entries is possible.
IterationOrders(cs) ==
    LET n == Cardinality(DOMAIN cs)
    IN  { [m \in 1..n |-> [text |-> f[m], count |-> cs[f[m]]]] :
            f \in { g \in [1..n -> DOMAIN cs] :
                      \A p, q \in 1..n : p # q => g[p] # g[q] } }

\* InsertByCount of an unstable sort: x goes in front of the elements whose
\* count equals its own
InsertBeforeEqual(sorted, x) ==
    LET p == Cardinality({n \in 1..Len(sorted) : sorted[n].count > x.count})
    IN  SubSeq(sorted, 1, p) \o <<x>> \o SubSeq(sorted, p + 1, Len(sorted))

\* slice::sort_by(|a, b| b.count.cmp(&a.count)): a stable sort, by count
\* descending.  x goes behind every element whose count is at least its own.
InsertByCount(sorted, x) ==
    LET p == Cardinality({n \in 1..Len(sorted) : sorted[n].count >= x.count})
    IN  SubSeq(sorted, 1, p) \o <<x>> \o SubSeq(sorted, p + 1, Len(sorted))

RECURSIVE SortInto(_, _)
SortInto(sorted, rest) ==
    IF rest = <<>> THEN sorted
    ELSE SortInto(InsertByCount(sorted, Head(rest)), Tail(rest))

sort_by_count(s) == SortInto(<<>>, s)

\* FirstMatch without the break of line 47: the last similar cluster wins
LastMatch(cs, text, t) ==
    LET hits == {n \in 1..Len(cs) : is_similar(text, cs[n].canonical, t)}
    IN  IF hits = {} THEN 0 ELSE CHOOSE n \in hits : \A m \in hits : n >= m

\* lines 42-49: the index of the first cluster whose canonical is similar to
\* text, 0 when there is none
FirstMatch(cs, text, t) ==
    LET hits == {n \in 1..Len(cs) : is_similar(text, cs[n].canonical, t)}
    IN  IF hits = {} THEN 0 ELSE CHOOSE n \in hits : \A m \in hits : n <= m

\* Absorb without the push of line 44
AbsorbCountOnly(cluster, text, count) ==
    [cluster EXCEPT !.count = @ + count]

\* Absorb that puts the text in front of the variants
AbsorbFront(cluster, text, count) ==
    [cluster EXCEPT !.variants = <<text>> \o @, !.count = @ + count]

\* lines 44-45
Absorb(cluster, text, count) ==
    [cluster EXCEPT !.variants = Append(@, text), !.count = @ + count]

\* lines 52-56
NewCluster(text, count) ==
    [canonical |-> text, variants |-> <<text>>, count |-> count]

\* lines 38-58: one iteration of the assignment loop
Assign(cs, item, t) ==
    LET m == FirstMatch(cs, item.text, t)
    IN  IF m = 0
        THEN Append(cs, NewCluster(item.text, item.count))
        ELSE [cs EXCEPT ![m] = Absorb(@, item.text, item.count)]

----------------------------------------------------------------------------
(* The state machine *)

InitCluster(raws, t) ==
    /\ prompts = raws
    /\ threshold = t
    /\ pc = "count"
    /\ i = 1
    /\ counts = <<>>
    /\ items = <<>>
    /\ k = 1
    /\ clusters = <<>>
    /\ creation = <<>>
    /\ a = <<>>
    /\ b = <<>>
    /\ similar = "none"

SeqsUpTo(S, n) == UNION { [1..m -> S] : m \in 0..n }

\* cluster() on any batch of at most MaxPrompts prompts of Corpus
Init == \E raws \in SeqsUpTo(Corpus, MaxPrompts), t \in Thresholds : InitCluster(raws, t)

\* cluster() on any batch of at most MaxNoisePrompts prompts of NoiseCorpus
InitNoise ==
    \/ \E raws \in SeqsUpTo(NoiseCorpus, MaxNoisePrompts) :
           InitCluster(raws, DefaultThreshold)
    \/ InitCluster(AllDiscarded, DefaultThreshold)

\* tests::test_clustering
InitScenario == InitCluster(Scenario, DefaultThreshold)

\* a direct call of is_similar, as in tests::test_similar_prompts
InitSim ==
    /\ \E x \in SimPool, y \in SimPool : a = x /\ b = y
    /\ threshold \in Thresholds
    /\ pc = "call"
    /\ similar = "none"
    /\ prompts = <<>>
    /\ i = 1
    /\ counts = <<>>
    /\ items = <<>>
    /\ k = 1
    /\ clusters = <<>>
    /\ creation = <<>>

\* lines 24-29: one iteration of the counting loop, or its end
CountStep ==
    /\ pc = "count"
    /\ IF i <= Len(prompts)
       THEN /\ counts' = (IF Keep(normalize(prompts[i]))
                          THEN Count(counts, normalize(prompts[i]))
                          ELSE counts)
            /\ i' = i + 1
            /\ pc' = pc
       ELSE /\ pc' = "rank"
            /\ UNCHANGED <<counts, i>>
    /\ UNCHANGED <<prompts, threshold, items, k, clusters, creation, a, b, similar>>

\* lines 32-33
SortItems ==
    /\ pc = "rank"
    /\ \E order \in IterationOrders(counts) : items' = sort_by_count(order)
    /\ pc' = "assign"
    /\ UNCHANGED <<prompts, threshold, i, counts, k, clusters, creation, a, b, similar>>

\* lines 38-58: one iteration of the assignment loop, or its end
AssignStep ==
    /\ pc = "assign"
    /\ IF k <= Len(items)
       THEN /\ clusters' = Assign(clusters, items[k], threshold)
            /\ creation' = (IF Len(clusters') > Len(clusters)
                            THEN Append(creation, items[k].text)
                            ELSE creation)
            /\ k' = k + 1
            /\ pc' = pc
       ELSE /\ pc' = "sort"
            /\ UNCHANGED <<clusters, creation, k>>
    /\ UNCHANGED <<prompts, threshold, i, counts, items, a, b, similar>>

\* lines 61-62
SortClusters ==
    /\ pc = "sort"
    /\ clusters' = sort_by_count(clusters)
    /\ pc' = "done"
    /\ UNCHANGED <<prompts, threshold, i, counts, items, k, creation, a, b, similar>>

\* lines 93-108, called directly
SimCall ==
    /\ pc = "call"
    /\ similar' = is_similar(a, b, threshold)
    /\ pc' = "returned"
    /\ UNCHANGED <<prompts, threshold, i, counts, items, k, clusters, creation, a, b>>

Next == CountStep \/ SortItems \/ AssignStep \/ SortClusters

NextSim == SimCall

Spec == Init /\ [][Next]_vars

SpecNoise == InitNoise /\ [][Next]_vars

SpecScenario == InitScenario /\ [][Next]_vars

SpecSim == InitSim /\ [][NextSim]_vars

----------------------------------------------------------------------------
(* What the properties are stated with *)

Range(s) == {s[n] : n \in 1..Len(s)}

RECURSIVE SumSeq(_)
SumSeq(s) == IF Len(s) = 0 THEN 0 ELSE Head(s) + SumSeq(Tail(s))

\* The position of x in s
Pos(s, x) == CHOOSE n \in 1..Len(s) : s[n] = x

\* The number of raw prompts of the input whose normalized form is text
Occurrences(text) ==
    Cardinality({n \in 1..Len(prompts) : normalize(prompts[n]) = text})

\* The raw prompts the counting loop does not discard, and their texts
KeptPrompts == {n \in 1..Len(prompts) : Keep(normalize(prompts[n]))}

KeptTexts == {normalize(prompts[n]) : n \in KeptPrompts}

\* The places (cluster, index in its variants) that hold text
Placements(text) ==
    UNION { { <<c, v>> : v \in {w \in 1..Len(clusters[c].variants) :
                                   clusters[c].variants[w] = text} } :
            c \in 1..Len(clusters) }

AllVariants == UNION { Range(clusters[c].variants) : c \in 1..Len(clusters) }

TotalCount == SumSeq([c \in 1..Len(clusters) |-> clusters[c].count])

\* The assignment loop has started
Assigning == pc \in {"assign", "sort", "done"}

\* The assignment loop is about to take items[k]
TakesItem == pc = "assign" /\ k <= Len(items)

\* Cluster c was created before cluster d
CreatedBefore(c, d) ==
    Pos(creation, clusters[c].canonical) < Pos(creation, clusters[d].canonical)

----------------------------------------------------------------------------
(* C1 *)

\* C1: in the returned list every kept normalized text of the input is in the
\* variants of exactly one cluster, exactly once, and every variant is a kept
\* normalized text of the input.
C1_Partition ==
    pc = "done" =>
        /\ \A text \in KeptTexts : Cardinality(Placements(text)) = 1
        /\ AllVariants \subseteq KeptTexts

\* A returned list of two clusters, one of them with an absorbed variant, for an
\* input with a discarded prompt.
C1_Witness ==
    /\ pc = "done"
    /\ Len(clusters) >= 2
    /\ \E c \in 1..Len(clusters) : Len(clusters[c].variants) >= 2
    /\ Cardinality(KeptPrompts) < Len(prompts)

----------------------------------------------------------------------------
(* C2 *)

\* C2: after every step of the assignment loop and in the returned list, each
\* cluster's count is the sum of the occurrences in the input of its variants;
\* the returned counts add up to the number of prompts that were not discarded.
C2_CountConservation ==
    /\ Assigning =>
           \A c \in 1..Len(clusters) :
               clusters[c].count =
                   SumSeq([v \in 1..Len(clusters[c].variants) |->
                              Occurrences(clusters[c].variants[v])])
    /\ pc \in {"sort", "done"} => TotalCount = Cardinality(KeptPrompts)

\* In the loop, a cluster of two variants, one of which occurs twice.
C2_Witness ==
    /\ pc = "assign"
    /\ \E c \in 1..Len(clusters) :
           /\ Len(clusters[c].variants) = 2
           /\ clusters[c].count = 3

----------------------------------------------------------------------------
(* C3 *)

RECURSIVE FirstSeenFrom(_, _)
FirstSeenFrom(n, acc) ==
    IF n > Len(prompts) THEN acc
    ELSE LET s == normalize(prompts[n])
         IN  IF Keep(s) /\ s \notin Range(acc)
             THEN FirstSeenFrom(n + 1, Append(acc, s))
             ELSE FirstSeenFrom(n + 1, acc)

\* The kept texts by count descending, equal counts in first-seen order
FirstSeenRanking ==
    LET seen == FirstSeenFrom(1, <<>>)
    IN  sort_by_count([n \in 1..Len(seen) |->
                          [text |-> seen[n], count |-> Occurrences(seen[n])]])

RECURSIVE AssignAll(_, _, _)
AssignAll(cs, its, t) ==
    IF its = <<>> THEN cs
    ELSE AssignAll(Assign(cs, Head(its), t), Tail(its), t)

\* C3: the ranked sequence is by count descending with equal counts in
\* first-seen order, so the result is the one function of the input and the
\* threshold that this order gives.
C3_Determinism ==
    /\ Assigning => items = FirstSeenRanking
    /\ pc = "done" =>
           clusters = sort_by_count(AssignAll(<<>>, FirstSeenRanking, threshold))

----------------------------------------------------------------------------
(* C4 *)

continue == <<"c", "o", "n", "t", "i", "n", "u", "e">>

cotninue == <<"c", "o", "t", "n", "i", "n", "u", "e">>

contnue == <<"c", "o", "n", "t", "n", "u", "e">>

\* C4: on tests::test_clustering's input with the default threshold, cluster
\* returns at least two clusters, and the one whose canonical is "continue" has
\* count >= 3 and holds "continue", "cotninue" and "contnue".
C4_TypoAbsorption ==
    (pc = "done" /\ prompts = Scenario /\ threshold = DefaultThreshold) =>
        /\ Len(clusters) >= 2
        /\ \E c \in 1..Len(clusters) :
               /\ clusters[c].canonical = continue
               /\ clusters[c].count >= 3
               /\ {continue, cotninue, contnue} \subseteq Range(clusters[c].variants)

----------------------------------------------------------------------------
(* C5 *)

\* C5: the returned list is non-increasing in count, and clusters of equal
\* count are in the order of their creation.
C5_OutputOrdering ==
    pc = "done" =>
        \A p, q \in 1..Len(clusters) :
            p < q =>
                /\ clusters[p].count >= clusters[q].count
                /\ clusters[p].count = clusters[q].count => CreatedBefore(p, q)

\* A returned list that the final sort reordered and that has two clusters of
\* equal count.
C5_Witness ==
    /\ pc = "done"
    /\ creation # [c \in 1..Len(clusters) |-> clusters[c].canonical]
    /\ \E p, q \in 1..Len(clusters) :
           p < q /\ clusters[p].count = clusters[q].count

----------------------------------------------------------------------------
(* C6 *)

\* The trimmed, lower-cased form of a raw prompt
Trimmed(raw) == to_lowercase(trim(raw))

\* s contains a substring marker or starts with a prefix marker
HasMarker(s) ==
    \/ \E m \in SubstringMarkers : contains(s, m)
    \/ \E m \in PrefixMarkers : starts_with(s, m)

\* The raw prompts that are neither noise nor too short
Countable ==
    {n \in 1..Len(prompts) :
        ~HasMarker(Trimmed(prompts[n])) /\ ByteLen(Trimmed(prompts[n])) > LengthFloor}

\* C6: a prompt whose trimmed, lower-cased form has a noise marker is in no
\* variants list and adds to no count; a batch of noise, too-short and empty
\* prompts only returns the empty list.
C6_NoiseRejection ==
    /\ \A n \in 1..Len(prompts) :
           HasMarker(Trimmed(prompts[n])) => Trimmed(prompts[n]) \notin AllVariants
    /\ TotalCount <= Cardinality(Countable)
    /\ pc \in {"sort", "done"} => TotalCount = Cardinality(Countable)
    /\ (pc = "done" /\ Countable = {}) => clusters = <<>>

\* A returned list with a cluster, for a batch with a noise prompt in it.
C6_Witness ==
    /\ pc = "done"
    /\ clusters # <<>>
    /\ \E n \in 1..Len(prompts) : HasMarker(Trimmed(prompts[n]))

----------------------------------------------------------------------------
(* C7 *)

\* The clusters whose canonical is similar to text
Similar(text) ==
    {n \in 1..Len(clusters) : is_similar(text, clusters[n].canonical, threshold)}

\* One iteration of the assignment loop puts items[k] in the first similar
\* cluster and touches no other, or appends a new cluster when none is similar.
C7_Step ==
    TakesItem =>
        LET text  == items[k].text
            count == items[k].count
            hits  == Similar(text)
        IN  IF hits = {}
            THEN clusters' = Append(clusters, [canonical |-> text,
                                               variants  |-> <<text>>,
                                               count     |-> count])
            ELSE \E m \in hits :
                    /\ \A n \in hits : m <= n
                    /\ Len(clusters') = Len(clusters)
                    /\ clusters'[m].canonical = clusters[m].canonical
                    /\ clusters'[m].variants = Append(clusters[m].variants, text)
                    /\ clusters'[m].count = clusters[m].count + count
                    /\ \A n \in 1..Len(clusters) : n # m => clusters'[n] = clusters[n]

\* Each variant is similar to its cluster's canonical and to no canonical of a
\* cluster created earlier; the canonicals are pairwise not similar.
C7_State ==
    \A c \in 1..Len(clusters) :
        /\ \A text \in Range(clusters[c].variants) :
               /\ is_similar(text, clusters[c].canonical, threshold)
               /\ \A d \in 1..Len(clusters) :
                      (d # c /\ CreatedBefore(d, c)) =>
                          ~is_similar(text, clusters[d].canonical, threshold)
        /\ \A d \in 1..Len(clusters) :
               d # c => ~is_similar(clusters[c].canonical, clusters[d].canonical,
                                    threshold)

\* C7: first match wins, in every step of the assignment loop and in every
\* state it leads to.
C7_FirstMatchWins == []C7_State /\ [][C7_Step]_vars

\* A variant that is also similar to the canonical of a cluster created after
\* its own.
C7_Witness ==
    \E c, d \in 1..Len(clusters) :
        /\ c # d
        /\ CreatedBefore(c, d)
        /\ \E text \in Range(clusters[c].variants) :
               /\ text # clusters[c].canonical
               /\ is_similar(text, clusters[d].canonical, threshold)

----------------------------------------------------------------------------
(* C8 *)

\* The assignment loop leaves the canonical of every cluster as it is.
C8_Step ==
    pc = "assign" =>
        /\ Len(clusters') >= Len(clusters)
        /\ \A c \in 1..Len(clusters) :
               clusters'[c].canonical = clusters[c].canonical

\* The first variant is the canonical, the variants are in the order in which
\* the loop took them, and no variant occurs more often than the canonical.
C8_State ==
    Assigning =>
        LET texts == [n \in 1..Len(items) |-> items[n].text]
            norm  == [n \in 1..Len(prompts) |-> normalize(prompts[n])]
            occ   == [text \in Range(texts) |->
                         Cardinality({n \in 1..Len(norm) : norm[n] = text})]
        IN  \A c \in 1..Len(clusters) :
                /\ clusters[c].variants # <<>>
                /\ clusters[c].variants[1] = clusters[c].canonical
                /\ \A p, q \in 1..Len(clusters[c].variants) :
                       p < q => Pos(texts, clusters[c].variants[p])
                                  < Pos(texts, clusters[c].variants[q])
                /\ \A text \in Range(clusters[c].variants) :
                       occ[clusters[c].canonical] >= occ[text]

\* C8: a cluster's canonical is fixed at its creation, heads its variants and
\* occurs at least as often as each of them.
C8_CanonicalStability == []C8_State /\ [][C8_Step]_vars

\* A returned cluster with an absorbed variant that occurs less often than its
\* canonical.
C8_Witness ==
    /\ pc = "done"
    /\ \E c \in 1..Len(clusters) :
           /\ Len(clusters[c].variants) >= 2
           /\ \E text \in Range(clusters[c].variants) :
                  Occurrences(text) < Occurrences(clusters[c].canonical)

----------------------------------------------------------------------------
(* C9 *)

\* C9: a prompt is discarded exactly when its normalized form is empty or has 3
\* or fewer characters: every returned variant has at least 4 characters, and
\* every normalized text of 4 or more characters is returned.
C9_LengthFloorInChars ==
    pc = "done" =>
        /\ \A text \in AllVariants : CharCount(text) > LengthFloor
        /\ \A n \in 1..Len(prompts) :
               CharCount(normalize(prompts[n])) > LengthFloor =>
                   normalize(prompts[n]) \in AllVariants

----------------------------------------------------------------------------
(* C10 *)

\* C10: is_similar(a, b, t) is false whenever min(|a|, |b|) / max(|a|, |b|) <
\* 0.5, the lengths being those in characters that the edit distance uses.
C10_LengthRatioShortCircuit ==
    (pc = "returned"
        /\ 2 * Min(CharCount(a), CharCount(b)) < Max(CharCount(a), CharCount(b)))
    => similar = FALSE

=============================================================================
